---- MODULE Spec2Model ----
(***************************************************************************)
(* A model of traycer's driver, src/main.cc:                               *)
(*   - color(), the recursive radiance integrator (SpecColor), together    *)
(*     with the per-pixel sample loop of writeImage() that calls it;       *)
(*   - the "#pragma omp parallel for" render loop of writeImage() with the *)
(*     process-wide drand48() generator and the image buffer (SpecRender,  *)
(*     SpecRenderTwice);                                                   *)
(*   - generateBitmapImage() and the two header builders (SpecBmp).        *)
(* Colours are Vec3 triples of integers (exact arithmetic).  The geometry  *)
(* (ObjCollection::getHit) and the materials (Material::emit / scatter)    *)
(* live in headers that main.cc only includes; they appear here as the     *)
(* oracles hitOf / nextRay and as material records.                        *)
(***************************************************************************)
EXTENDS Integers, Sequences, FiniteSets, TLC

VARIABLES
    \* ---- color() and its caller
    world,      \* ObjCollection: sequence of objects, each a material record
    hitOf,      \* getHit oracle: ray -> index of nearest object + 1, 0 = no hit
    caller,     \* "direct" (color called on its own) or "writeImage"
    depth0,     \* the depth argument of the outermost call
    pc,         \* "call", "return", "done", "averaged", "idle"
    r,          \* ray argument of the running invocation
    n,          \* depth argument of the running invocation
    stack,      \* suspended invocations: [r, n, emission, attenuation]
    retval,     \* value being returned
    px,         \* writeImage: per-pixel accumulator
    s,          \* writeImage: sample counter
    avg,        \* writeImage: px / ns as an exact fraction <<numerators, den>>
    \* ---- history of the running evaluation of color (observations)
    trace,      \* <<ray, depth>> of every invocation, in call order
    outcome,    \* per invocation: "miss", "capped", "absorbed", "scattered"
    hitIdx,     \* per invocation: what getHit returned
    results,    \* values returned so far, deepest invocation first
    emitCalls,  \* number of Material::emit invocations
    scatterAt,  \* depths at which Material::scatter was invoked
    \* ---- parallel render loop
    rng,        \* state of the process-wide drand48 generator
    seed,       \* generator state at the start of the render
    pending,    \* iterations y of the parallel for not yet handed out
    th,         \* per thread: [pc, y, x, s, px, tmp, u]
    image,      \* image[y][x] = <<byte0, byte1, byte2>>, or Unwritten
    writers,    \* writers[y][x] = the threads that stored into the pixel, in order
    pass,       \* 1 = first render, 2 = second render of the same scene
    prevImage,  \* image of the first render
    \* ---- bitmap writer
    bpc,        \* "start", "fileHeader", "infoHeader", "rows", "closed", "idle"
    width, height,
    paddingSize, stride,
    fileHeader, infoHeader,
    row,        \* loop variable i of generateBitmapImage
    written     \* number of bytes written to the file so far

colorVars == <<world, hitOf, caller, depth0, pc, r, n, stack, retval, px, s, avg,
               trace, outcome, hitIdx, results, emitCalls, scatterAt>>
renderVars == <<rng, seed, pending, th, image, writers, pass, prevImage>>
bmpVars == <<bpc, width, height, paddingSize, stride, fileHeader, infoHeader,
             row, written>>
vars == <<colorVars, renderVars, bmpVars>>

----------------------------------------------------------------------------
(* Bounds of the model *)
MaxObjects == 2     \* primitives in a scene: 0..MaxObjects
NumRays == 2        \* distinct rays the geometry oracle tells apart
NS == 2             \* samples per pixel (ns)
NX == 1             \* image width of the render loop (nx)
NY == 2             \* image height of the render loop (ny)
RngMod == 4         \* the generator is tracked modulo RngMod
MaxWidth == 24      \* bitmap widths 1..MaxWidth
MaxHeight == 4      \* bitmap heights 1..MaxHeight

(* Program constants *)
BounceCap == 25
BYTES_PER_PIXEL == 3
FILE_HEADER_SIZE == 14
INFO_HEADER_SIZE == 40
NumThreads == 4
ImageWidth == 1920
ImageHeight == 1080

----------------------------------------------------------------------------
(* Vec3 *)
Zero3 == <<0, 0, 0>>
One3 == <<1, 1, 1>>
VAdd(a, b) == <<a[1] + b[1], a[2] + b[2], a[3] + b[3]>>
VMul(a, b) == <<a[1] * b[1], a[2] * b[2], a[3] * b[3]>>
NonNeg3(a) == a[1] >= 0 /\ a[2] >= 0 /\ a[3] >= 0

----------------------------------------------------------------------------
(* Materials: what color() sees of a Material through emit() and scatter(). *)
(* scatters is the set of values scatter() can return for the material.     *)
Mat(k, e, a, sc) == [kind |-> k, emission |-> e, attenuation |-> a, scatters |-> sc]
Lambertian == Mat("Lambertian", Zero3, <<1, 0, 1>>, {TRUE})
Dielectric == Mat("Dielectric", Zero3, One3, {TRUE})
Metal == Mat("Metal", Zero3, <<1, 1, 0>>, {TRUE, FALSE})
DiffuseLight == Mat("DiffuseLight", <<3, 3, 3>>, Zero3, {FALSE})
\* Material is an open interface: a subclass may both emit and scatter,
\* and nothing in color() enforces the authoring conventions.
Glowing == Mat("Glowing", <<1, 2, 0>>, <<0, 0, 1>>, {TRUE})
Unphysical == Mat("Unphysical", <<-1, 0, 0>>, <<0, 2, 1>>, {TRUE, FALSE})
Materials == {Lambertian, Metal, Dielectric, DiffuseLight, Glowing, Unphysical}

\* The material contracts of the design: emission >= 0, attenuation in [0,1].
InContract(m) ==
    /\ NonNeg3(m.emission)
    /\ \A i \in 1..3 : m.attenuation[i] >= 0 /\ m.attenuation[i] <= 1
MaterialContracts == \A i \in 1..Len(world) : InContract(world[i])

Rays == 0..(NumRays - 1)
Worlds == UNION {[1..k -> Materials] : k \in 0..MaxObjects}
StartDepths == {BounceCap - 1, BounceCap, BounceCap + 1}

\* ObjCollection::getHit(r, 0.001, FLT_MAX, indexedHit): the bool it returns
getHit(ray) == hitOf[ray] # 0
\* indexedHit.first
HitIndex(ray) == hitOf[ray]
\* world.getObject(index)->getMaterial()
getMaterial(index) == world[index]
\* material->emit(0.0, 0.0, Vec3(0,0,0))
emit(m) == m.emission
\* the ray scatter() stores in "scattered"
nextRay(ray) == (ray + 1) % NumRays

\* return Vec3(0.0, 0.0, 0.0) of the else branch
BackgroundSky == <<1, 1, 2>>
Background == Zero3
\* the left operand of && in "n < 25 && material->scatter(...)"
DepthOkOffByOne(d) == d <= BounceCap
DepthOk(d) == d < BounceCap
\* emission + attenuation * color(scattered, world, n+1)
CombineNoEmission(emission, attenuation, rec) == VMul(attenuation, rec)
CombineSubtract(emission, attenuation, rec) ==
    <<emission[1] - attenuation[1] * rec[1], emission[2] - attenuation[2] * rec[2],
      emission[3] - attenuation[3] * rec[3]>>
CombineScaleAll(emission, attenuation, rec) == VMul(VAdd(emission, attenuation), rec)
Combine(emission, attenuation, rec) == VAdd(emission, VMul(attenuation, rec))
\* the depth argument of the recursive call
ChildDepthSame(d) == d
ChildDepth(d) == d + 1

NoHistory ==
    /\ trace = <<>>
    /\ outcome = <<>>
    /\ hitIdx = <<>>
    /\ results = <<>>
    /\ emitCalls = 0
    /\ scatterAt = {}

\* color(ray, world, d) is entered
Enter(ray, d) ==
    /\ r' = ray
    /\ n' = d
    /\ trace' = Append(trace, <<ray, d>>)

\* getHit fails: return the background
ColorMiss ==
    /\ pc = "call"
    /\ ~getHit(r)
    /\ retval' = Background
    /\ pc' = "return"
    /\ outcome' = Append(outcome, "miss")
    /\ hitIdx' = Append(hitIdx, 0)
    /\ UNCHANGED <<world, hitOf, caller, depth0, r, n, stack, px, s, avg,
                   trace, results, emitCalls, scatterAt>>
    /\ UNCHANGED <<renderVars, bmpVars>>

\* hit, but n < 25 is false: && short-circuits, scatter is not called
ColorCapped ==
    /\ pc = "call"
    /\ getHit(r)
    /\ ~DepthOk(n)
    /\ retval' = emit(getMaterial(HitIndex(r)))
    /\ emitCalls' = emitCalls + 1
    /\ pc' = "return"
    /\ outcome' = Append(outcome, "capped")
    /\ hitIdx' = Append(hitIdx, HitIndex(r))
    /\ UNCHANGED <<world, hitOf, caller, depth0, r, n, stack, px, s, avg,
                   trace, results, scatterAt>>
    /\ UNCHANGED <<renderVars, bmpVars>>

\* hit, n < 25, scatter returns false: return emission
ColorAbsorbed ==
    /\ pc = "call"
    /\ getHit(r)
    /\ DepthOk(n)
    /\ FALSE \in getMaterial(HitIndex(r)).scatters
    /\ retval' = emit(getMaterial(HitIndex(r)))
    /\ emitCalls' = emitCalls + 1
    /\ scatterAt' = scatterAt \cup {n}
    /\ pc' = "return"
    /\ outcome' = Append(outcome, "absorbed")
    /\ hitIdx' = Append(hitIdx, HitIndex(r))
    /\ UNCHANGED <<world, hitOf, caller, depth0, r, n, stack, px, s, avg,
                   trace, results>>
    /\ UNCHANGED <<renderVars, bmpVars>>

\* hit, n < 25, scatter returns true: recurse on the scattered ray
ColorRecurse ==
    /\ pc = "call"
    /\ getHit(r)
    /\ DepthOk(n)
    /\ TRUE \in getMaterial(HitIndex(r)).scatters
    /\ emitCalls' = emitCalls + 1
    /\ scatterAt' = scatterAt \cup {n}
    /\ stack' = Append(stack, [r |-> r, n |-> n,
                               emission |-> emit(getMaterial(HitIndex(r))),
                               attenuation |-> getMaterial(HitIndex(r)).attenuation])
    /\ Enter(nextRay(r), ChildDepth(n))
    /\ outcome' = Append(outcome, "scattered")
    /\ hitIdx' = Append(hitIdx, HitIndex(r))
    /\ UNCHANGED <<world, hitOf, caller, depth0, pc, retval, px, s, avg, results>>
    /\ UNCHANGED <<renderVars, bmpVars>>

\* an invocation returns to the suspended one that called it
ColorReturn ==
    /\ pc = "return"
    /\ stack # <<>>
    /\ LET f == stack[Len(stack)] IN
         /\ retval' = Combine(f.emission, f.attenuation, retval)
         /\ r' = f.r
         /\ n' = f.n
    /\ stack' = SubSeq(stack, 1, Len(stack) - 1)
    /\ results' = Append(results, retval)
    /\ UNCHANGED <<world, hitOf, caller, depth0, pc, px, s, avg,
                   trace, outcome, hitIdx, emitCalls, scatterAt>>
    /\ UNCHANGED <<renderVars, bmpVars>>

\* the outermost invocation returns to its caller
ColorDone ==
    /\ pc = "return"
    /\ stack = <<>>
    /\ pc' = "done"
    /\ results' = Append(results, retval)
    /\ UNCHANGED <<world, hitOf, caller, depth0, r, n, stack, retval, px, s, avg,
                   trace, outcome, hitIdx, emitCalls, scatterAt>>
    /\ UNCHANGED <<renderVars, bmpVars>>

\* writeImage: px += color(r, world, 0), next sample
SampleNext ==
    /\ pc = "done"
    /\ caller = "writeImage"
    /\ s + 1 < NS
    /\ px' = VAdd(px, retval)
    /\ s' = s + 1
    /\ pc' = "call"
    /\ r' = nextRay(r)
    /\ n' = 0
    /\ trace' = <<<<nextRay(r), 0>>>>
    /\ outcome' = <<>>
    /\ hitIdx' = <<>>
    /\ results' = <<>>
    /\ emitCalls' = 0
    /\ scatterAt' = {}
    /\ UNCHANGED <<world, hitOf, caller, depth0, stack, retval, avg>>
    /\ UNCHANGED <<renderVars, bmpVars>>

\* writeImage: the last sample is added, then px = px / ns
SampleAverage ==
    /\ pc = "done"
    /\ caller = "writeImage"
    /\ s + 1 = NS
    /\ px' = VAdd(px, retval)
    /\ s' = s + 1
    /\ avg' = <<VAdd(px, retval), NS>>
    /\ pc' = "averaged"
    /\ UNCHANGED <<world, hitOf, caller, depth0, r, n, stack, retval,
                   trace, outcome, hitIdx, results, emitCalls, scatterAt>>
    /\ UNCHANGED <<renderVars, bmpVars>>

ColorIdle ==
    /\ world = <<>>
    /\ hitOf = <<>>
    /\ caller = "none"
    /\ depth0 = 0
    /\ pc = "idle"
    /\ r = 0
    /\ n = 0
    /\ stack = <<>>
    /\ retval = Zero3
    /\ px = Zero3
    /\ s = 0
    /\ avg = <<Zero3, 1>>
    /\ NoHistory

ColorInit ==
    /\ world \in Worlds
    /\ hitOf \in [Rays -> 0..Len(world)]
    /\ caller \in {"direct", "writeImage"}
    /\ depth0 \in IF caller = "direct" THEN StartDepths ELSE {0}
    /\ pc = "call"
    /\ r = 0
    /\ n = depth0
    /\ stack = <<>>
    /\ retval = Zero3
    /\ px = Zero3
    /\ s = 0
    /\ avg = <<Zero3, 1>>
    /\ trace = <<<<r, n>>>>
    /\ outcome = <<>>
    /\ hitIdx = <<>>
    /\ results = <<>>
    /\ emitCalls = 0
    /\ scatterAt = {}

----------------------------------------------------------------------------
(* Idle values of the parts a specification leaves out *)
RenderIdle ==
    /\ rng = 0
    /\ seed = 0
    /\ pending = {}
    /\ th = <<>>
    /\ image = <<>>
    /\ writers = <<>>
    /\ pass = 0
    /\ prevImage = <<>>

BmpIdle ==
    /\ bpc = "idle"
    /\ width = 0
    /\ height = 0
    /\ paddingSize = 0
    /\ stride = 0
    /\ fileHeader = <<>>
    /\ infoHeader = <<>>
    /\ row = 0
    /\ written = 0

----------------------------------------------------------------------------
(* The integrator and the sample loop around it *)
InitColor == ColorInit /\ RenderIdle /\ BmpIdle

NextColor ==
    \/ ColorMiss
    \/ ColorCapped
    \/ ColorAbsorbed
    \/ ColorRecurse
    \/ ColorReturn
    \/ ColorDone
    \/ SampleNext
    \/ SampleAverage

SpecColor == InitColor /\ [][NextColor]_vars

----------------------------------------------------------------------------
(* Reading the history of one evaluation of color *)
Invocations == 1..Len(trace)
Decided == 1..Len(outcome)
RayOf(i) == trace[i][1]
DepthOf(i) == trace[i][2]
HitAt(i) == hitOf[RayOf(i)] # 0
MaterialAt(i) == world[hitOf[RayOf(i)]]
Returned(i) == Len(trace) - i + 1 <= Len(results)
ResultOf(i) == results[Len(trace) - i + 1]
Running == pc \in {"call", "return"}
\* the histories only grow while color is evaluated: the invocation decided
\* last, and the one that returned last
LatestEntered == Len(trace)
LatestDecided == Len(outcome)
LatestReturned == Len(trace) - Len(results) + 1

(* The explicit-loop form of the integrator (design note): throughput T,   *)
(* accumulator L; step i takes the scatter outcome the recursion observed. *)
RECURSIVE Loop(_, _, _, _, _, _)
Loop(ray, d, T, L, i, visited) ==
    LET seen == Append(visited, <<ray, d>>) IN
    IF hitOf[ray] = 0
    THEN [value |-> L, visited |-> seen]
    ELSE LET m == world[hitOf[ray]]
             L2 == VAdd(L, VMul(T, m.emission))
         IN  IF d >= BounceCap \/ i > Len(outcome) \/ outcome[i] # "scattered"
             THEN [value |-> L2, visited |-> seen]
             ELSE Loop((ray + 1) % NumRays, d + 1, VMul(T, m.attenuation), L2,
                       i + 1, seen)
LoopColor == Loop(trace[1][1], trace[1][2], One3, Zero3, 1, <<>>)

----------------------------------------------------------------------------
(* C1: evaluating color(r, world, 0) terminates and never recurses past    *)
(* the bounce cap: every invocation of the chain has 0 <= n <= 25, no      *)
(* invocation with n = 25 recurses, at most 26 invocations are made, the   *)
(* suspended frames never exceed 25, and a running evaluation can always   *)
(* take its next step (it only stops by returning to the caller).  Each    *)
(* invocation is checked when it is the latest entered or decided.         *)
C1_BoundedRecursion ==
    depth0 = 0 =>
        /\ \A i \in {LatestEntered} :
             DepthOf(i) >= 0 /\ DepthOf(i) <= BounceCap /\ DepthOf(i) = i - 1
        /\ \A i \in {LatestDecided} \cap Decided :
             DepthOf(i) = BounceCap => outcome[i] # "scattered" /\ i = Len(trace)
        /\ Len(trace) <= BounceCap + 1
        /\ Len(stack) <= BounceCap
        /\ Len(results) <= Len(trace)
        /\ Running => ENABLED NextColor

\* mutually reflecting objects that always scatter: the cap ends the path
C1_Witness ==
    /\ depth0 = 0
    /\ pc = "done"
    /\ Len(trace) = BounceCap + 1
    /\ hitOf[0] # 0 /\ hitOf[1] # 0 /\ hitOf[0] # hitOf[1]
    /\ \A i \in 1..BounceCap : outcome[i] = "scattered"
    /\ \A i \in 1..Len(world) : world[i].scatters = {TRUE}

(* C5: an invocation at depth n = 25 that hits a primitive returns exactly *)
(* that primitive's emission; scatter is not invoked at depth 25 and no    *)
(* recursive call is made from it.  (The history only grows during one     *)
(* evaluation, so each invocation is checked when it is the latest decided *)
(* and when it is the latest returned.)                                    *)
C5_CapReturnsEmission ==
    /\ BounceCap \notin scatterAt
    /\ \A i \in {LatestDecided, LatestReturned} \cap Decided :
         (DepthOf(i) = BounceCap /\ HitAt(i)) =>
            /\ outcome[i] = "capped"
            /\ i = Len(trace)
            /\ Returned(i) => ResultOf(i) = MaterialAt(i).emission

\* the cap is reached on an emitting material that would have scattered
C5_Witness ==
    /\ pc = "done"
    /\ depth0 = 0
    /\ Len(trace) = BounceCap + 1
    /\ HitAt(BounceCap + 1)
    /\ MaterialAt(BounceCap + 1).emission # Zero3
    /\ TRUE \in MaterialAt(BounceCap + 1).scatters
    /\ ResultOf(BounceCap + 1) = MaterialAt(BounceCap + 1).emission

(* C6: an invocation at depth n < 25 that hits a primitive either          *)
(* scatters, and then recurses on the scattered ray at depth exactly n+1   *)
(* and returns emission + attenuation * (value of that call), component-   *)
(* wise; or fails to scatter, and then is the last invocation of the path  *)
(* (no further hit query) and returns the emission alone.                  *)
C6_ScatterOrEmission ==
    \A i \in {LatestDecided, LatestReturned} \cap Decided :
        (HitAt(i) /\ DepthOf(i) < BounceCap) =>
            /\ outcome[i] \in {"scattered", "absorbed"}
            /\ DepthOf(i) \in scatterAt
            /\ outcome[i] = "scattered" =>
                 /\ TRUE \in MaterialAt(i).scatters
                 /\ i < Len(trace)
                 /\ trace[i + 1] = <<(RayOf(i) + 1) % NumRays, DepthOf(i) + 1>>
                 /\ Returned(i) =>
                      ResultOf(i) = VAdd(MaterialAt(i).emission,
                                         VMul(MaterialAt(i).attenuation, ResultOf(i + 1)))
            /\ outcome[i] = "absorbed" =>
                 /\ FALSE \in MaterialAt(i).scatters
                 /\ i = Len(trace)
                 /\ Returned(i) => ResultOf(i) = MaterialAt(i).emission

\* a path with a scattering emitter above a non-black value, and one that
\* ended in a failed scatter
C6_Witness ==
    /\ pc = "done"
    /\ Len(trace) = 3
    /\ outcome = <<"scattered", "scattered", "absorbed">>
    /\ MaterialAt(1).emission # Zero3
    /\ ResultOf(2) # Zero3
    /\ ResultOf(1) # MaterialAt(1).emission

(* C7: in a scene with zero primitives color returns exactly (0,0,0) for   *)
(* every ray and every depth (also n >= 25), makes no recursive call and   *)
(* invokes no material operation.                                          *)
C7_EmptySceneIsBlack ==
    world = <<>> =>
        /\ Len(trace) = 1
        /\ emitCalls = 0
        /\ scatterAt = {}
        /\ \A i \in Decided : outcome[i] = "miss"
        /\ pc \in {"return", "done", "averaged"} => retval = Zero3
        /\ \A k \in 1..Len(results) : results[k] = Zero3

C7_Witness ==
    /\ world = <<>>
    /\ pc = "done"
    /\ depth0 = BounceCap + 1
    /\ results = <<Zero3>>

(* C8: when every material of the scene keeps the contracts (emission >= 0 *)
(* and attenuation in [0,1] in every component), every value color returns *)
(* has non-negative components (checked as each invocation returns), and   *)
(* so have the accumulator px and the average px / ns (whose divisor is    *)
(* positive).                                                              *)
C8_NonNegativeRadiance ==
    MaterialContracts =>
        /\ results # <<>> => NonNeg3(results[Len(results)])
        /\ pc \in {"return", "done", "averaged"} => NonNeg3(retval)
        /\ NonNeg3(px)
        /\ pc = "averaged" => avg[2] > 0 /\ NonNeg3(avg[1])

\* a pixel averaged over samples that bounced and gathered light
C8_Witness ==
    /\ MaterialContracts
    /\ pc = "averaged"
    /\ Len(trace) >= 3
    /\ avg[1][1] > 0 /\ avg[1][2] > 0
    /\ avg[1] # retval

(* C9: the value and the visited (ray, depth) sequence of color(r,world,0) *)
(* equal those of the explicit loop with throughput T and accumulator L.   *)
C9_RecursionEqualsLoop ==
    (depth0 = 0 /\ pc = "done") =>
        /\ LoopColor.value = retval
        /\ LoopColor.visited = trace

\* a path on which throughput and emission both matter
C9_Witness ==
    /\ depth0 = 0
    /\ pc = "done"
    /\ Len(trace) >= 4
    /\ \E i \in 1..3 : MaterialAt(i).emission # Zero3 /\ MaterialAt(i).attenuation # One3
    /\ retval # Zero3
    /\ retval # MaterialAt(1).emission

----------------------------------------------------------------------------
(* The bitmap writer *)
\* (unsigned char)(v >> (8*k)) for v >= 0
Byte(v, k) == (v \div (256 ^ k)) % 256
Zeros(k) == [i \in 1..k |-> 0]
\* the little-endian 32-bit value stored at C offset off of a header
LE32(hdr, off) ==
    hdr[off + 1] + 256 * hdr[off + 2] + 65536 * hdr[off + 3] + 16777216 * hdr[off + 4]

\* int paddingSize = (4 - (widthInBytes) % 4) % 4
PaddingNoWrap(widthInBytes) == 4 - (widthInBytes % 4)
PaddingSize(widthInBytes) == (4 - (widthInBytes % 4)) % 4

createBitmapFileHeader(h, strd) ==
    LET fileSize == FILE_HEADER_SIZE + INFO_HEADER_SIZE + strd * h IN
    [i \in 1..FILE_HEADER_SIZE |->
        CASE i = 1 -> 66      \* 'B'
          [] i = 2 -> 77      \* 'M'
          [] i \in 3..6 -> Byte(fileSize, i - 3)
          [] i = 11 -> Byte(FILE_HEADER_SIZE + INFO_HEADER_SIZE, 0)
          [] OTHER -> 0]

createBitmapInfoHeader(h, w) ==
    [i \in 1..INFO_HEADER_SIZE |->
        CASE i = 1 -> Byte(INFO_HEADER_SIZE, 0)
          [] i \in 5..8 -> Byte(w, i - 5)
          [] i \in 9..12 -> Byte(h, i - 9)
          [] i = 13 -> 1
          [] i = 15 -> Byte(BYTES_PER_PIXEL * 8, 0)
          [] OTHER -> 0]

\* the sizes generateBitmapImage is called with: small ones, and writeImage's
Dimensions == ((1..MaxWidth) \X (1..MaxHeight)) \cup {<<ImageWidth, ImageHeight>>}

\* widthInBytes, paddingSize, stride; fopen
BmpOpen ==
    /\ bpc = "start"
    /\ paddingSize' = PaddingSize(width * BYTES_PER_PIXEL)
    /\ stride' = width * BYTES_PER_PIXEL + PaddingSize(width * BYTES_PER_PIXEL)
    /\ bpc' = "fileHeader"
    /\ UNCHANGED <<width, height, fileHeader, infoHeader, row, written>>
    /\ UNCHANGED <<colorVars, renderVars>>

BmpWriteFileHeader ==
    /\ bpc = "fileHeader"
    /\ fileHeader' = createBitmapFileHeader(height, stride)
    /\ written' = written + FILE_HEADER_SIZE
    /\ bpc' = "infoHeader"
    /\ UNCHANGED <<width, height, paddingSize, stride, infoHeader, row>>
    /\ UNCHANGED <<colorVars, renderVars>>

BmpWriteInfoHeader ==
    /\ bpc = "infoHeader"
    /\ infoHeader' = createBitmapInfoHeader(height, width)
    /\ written' = written + INFO_HEADER_SIZE
    /\ row' = 0
    /\ bpc' = "rows"
    /\ UNCHANGED <<width, height, paddingSize, stride, fileHeader>>
    /\ UNCHANGED <<colorVars, renderVars>>

\* one iteration of the row loop: width pixels of 3 bytes, then the padding
BmpWriteRow ==
    /\ bpc = "rows"
    /\ row < height
    /\ written' = written + BYTES_PER_PIXEL * width + paddingSize
    /\ row' = row + 1
    /\ UNCHANGED <<bpc, width, height, paddingSize, stride, fileHeader, infoHeader>>
    /\ UNCHANGED <<colorVars, renderVars>>

BmpClose ==
    /\ bpc = "rows"
    /\ row >= height
    /\ bpc' = "closed"
    /\ UNCHANGED <<width, height, paddingSize, stride, fileHeader, infoHeader,
                   row, written>>
    /\ UNCHANGED <<colorVars, renderVars>>

InitBmp ==
    /\ bpc = "start"
    /\ \E d \in Dimensions : width = d[1] /\ height = d[2]
    /\ paddingSize = 0
    /\ stride = 0
    /\ fileHeader = Zeros(FILE_HEADER_SIZE)
    /\ infoHeader = Zeros(INFO_HEADER_SIZE)
    /\ row = 0
    /\ written = 0
    /\ ColorIdle
    /\ RenderIdle

NextBmp ==
    \/ BmpOpen
    \/ BmpWriteFileHeader
    \/ BmpWriteInfoHeader
    \/ BmpWriteRow
    \/ BmpClose

SpecBmp == InitBmp /\ [][NextBmp]_vars

(* C10: for every width >= 1 and height >= 1 the padding is in 0..3, the   *)
(* stride width*3 + paddingSize is a multiple of 4, and the file size the  *)
(* file header stores (14 + 40 + stride*height) is the number of bytes     *)
(* generateBitmapImage has written when it closes the file.                *)
C10_HeaderSizeIsBytesWritten ==
    /\ bpc \in {"fileHeader", "infoHeader", "rows", "closed"} =>
         /\ paddingSize \in 0..3
         /\ stride = width * 3 + paddingSize
         /\ stride % 4 = 0
    /\ bpc \in {"infoHeader", "rows", "closed"} =>
         LE32(fileHeader, 2) = 14 + 40 + stride * height
    /\ bpc = "closed" =>
         /\ LE32(fileHeader, 2) = written
         /\ written = 14 + 40 + height * (width * 3 + paddingSize)

\* a finished file whose rows needed padding and whose size needs two bytes
C10_Witness ==
    /\ bpc = "closed"
    /\ paddingSize > 0
    /\ height > 1
    /\ written > 255
    /\ fileHeader[4] # 0

----------------------------------------------------------------------------
(* The parallel render loop of writeImage *)
Threads == 1..NumThreads
Rows == 0..(NY - 1)
Cols == 0..(NX - 1)
Unwritten == <<-1, -1, -1>>
BlankImage == [yy \in Rows |-> [xx \in Cols |-> Unwritten]]
NoWriters == [yy \in Rows |-> [xx \in Cols |-> <<>>]]
IdleThread == [pc |-> "idle", y |-> 0, x |-> 0, s |-> 0, px |-> Zero3, tmp |-> 0, u |-> 0]

\* drand48(): X' = (a*X + c) mod 2^48 with a = 0x5DEECE66D, c = 0xB, so
\* a = 5 and c = 3 modulo 8; the model tracks X modulo RngMod and hands the
\* new state out as the number drawn.
LcgNext(X) == (5 * X + 3) % RngMod

\* color(cam.getRay(u, v), world, 0) for the jittered sample of pixel (x, y):
\* a fixed scene seen as a function of the pixel and the two numbers drawn.
Palette == <<Zero3, <<1, 2, 0>>, <<3, 3, 3>>>>
Radiance(xx, yy, du, dv) == Palette[((xx + yy + du + 2 * dv) % 3) + 1]

\* (unsigned char) fmin(255.0, 255.00*sqrt(c)) for c = sum / ns >= 0:
\* floor(255*sqrt(q)) is the integer square root of floor(65025*q)
ISqrt(v) == CHOOSE k \in 0..255 : k * k <= v /\ v < (k + 1) * (k + 1)
GammaByte(sum) ==
    LET v == (65025 * sum) \div NS IN
    IF v >= 65025 THEN 255 ELSE ISqrt(v)

\* "#pragma omp parallel for": an iteration handed to a thread is handed to
\* no other thread
HandoutToAll(yy) == pending
Handout(yy) == pending \ {yy}

\* image[y][x][2] = px[0]; image[y][x][1] = px[1]; image[y][x][0] = px[2]
PixelBytes(sum) == <<GammaByte(sum[3]), GammaByte(sum[2]), GammaByte(sum[1])>>

\* a thread gets iteration y of the loop and starts its first pixel
TakeIteration(t, yy) ==
    /\ th[t].pc = "idle"
    /\ yy \in pending
    /\ pending' = Handout(yy)
    /\ th' = [th EXCEPT ![t] = [IdleThread EXCEPT !.pc = "uLoad", !.y = yy]]
    /\ UNCHANGED <<rng, seed, image, writers, pass, prevImage>>
    /\ UNCHANGED <<colorVars, bmpVars>>

\* drand48() reads the generator state ...
DrandLoad(t) ==
    /\ th[t].pc \in {"uLoad", "vLoad"}
    /\ th' = [th EXCEPT ![t].tmp = rng,
                        ![t].pc = IF th[t].pc = "uLoad" THEN "uStore" ELSE "vStore"]
    /\ UNCHANGED <<rng, seed, pending, image, writers, pass, prevImage>>
    /\ UNCHANGED <<colorVars, bmpVars>>

\* ... and stores the next state and returns it: float u = (x + drand48())/nx
DrandStoreU(t) ==
    /\ th[t].pc = "uStore"
    /\ rng' = LcgNext(th[t].tmp)
    /\ th' = [th EXCEPT ![t].u = LcgNext(th[t].tmp), ![t].pc = "vLoad"]
    /\ UNCHANGED <<seed, pending, image, writers, pass, prevImage>>
    /\ UNCHANGED <<colorVars, bmpVars>>

\* float v = (y + drand48())/ny; r = cam.getRay(u, v); px += color(r, world, 0)
DrandStoreV(t) ==
    /\ th[t].pc = "vStore"
    /\ rng' = LcgNext(th[t].tmp)
    /\ th' = [th EXCEPT
                ![t].px = VAdd(th[t].px,
                               Radiance(th[t].x, th[t].y, th[t].u, LcgNext(th[t].tmp))),
                ![t].s = th[t].s + 1,
                ![t].pc = IF th[t].s + 1 < NS THEN "uLoad" ELSE "write"]
    /\ UNCHANGED <<seed, pending, image, writers, pass, prevImage>>
    /\ UNCHANGED <<colorVars, bmpVars>>

\* px = px / ns, gamma, the three stores into image[y][x]; next x
WritePixel(t) ==
    /\ th[t].pc = "write"
    /\ image' = [image EXCEPT ![th[t].y][th[t].x] = PixelBytes(th[t].px)]
    /\ writers' = [writers EXCEPT ![th[t].y][th[t].x] = Append(@, t)]
    /\ th' = [th EXCEPT ![t] =
                IF th[t].x + 1 < NX
                THEN [IdleThread EXCEPT !.pc = "uLoad", !.y = th[t].y, !.x = th[t].x + 1]
                ELSE IdleThread]
    /\ UNCHANGED <<rng, seed, pending, pass, prevImage>>
    /\ UNCHANGED <<colorVars, bmpVars>>

\* the implicit barrier at the end of the parallel loop has been passed
RenderFinished == pending = {} /\ \A t \in Threads : th[t].pc = "idle"

\* the same scene is rendered a second time from the same generator state
RenderAgain ==
    /\ RenderFinished
    /\ pass = 1
    /\ prevImage' = image
    /\ image' = BlankImage
    /\ writers' = NoWriters
    /\ rng' = seed
    /\ pending' = Rows
    /\ pass' = 2
    /\ UNCHANGED <<seed, th>>
    /\ UNCHANGED <<colorVars, bmpVars>>

InitRender ==
    /\ seed \in 0..(RngMod - 1)
    /\ rng = seed
    /\ pending = Rows
    /\ th = [t \in Threads |-> IdleThread]
    /\ image = BlankImage
    /\ writers = NoWriters
    /\ pass = 1
    /\ prevImage = BlankImage
    /\ ColorIdle
    /\ BmpIdle

NextRender ==
    \/ \E t \in Threads, yy \in Rows : TakeIteration(t, yy)
    \/ \E t \in Threads : DrandLoad(t)
    \/ \E t \in Threads : DrandStoreU(t)
    \/ \E t \in Threads : DrandStoreV(t)
    \/ \E t \in Threads : WritePixel(t)

SpecRender == InitRender /\ [][NextRender]_vars

NextRenderTwice ==
    \/ NextRender
    \/ RenderAgain

SpecRenderTwice == InitRender /\ [][NextRenderTwice]_vars

----------------------------------------------------------------------------
\* the threads inside drand48(), between its read and its write of the state
InDrand == {t \in Threads : th[t].pc \in {"uStore", "vStore"}}
Working == {t \in Threads : th[t].pc # "idle"}

(* C2: during the parallel render loop no two worker threads are inside    *)
(* the read-modify-write of the same generator state at the same time.     *)
C2_GeneratorExclusive == Cardinality(InDrand) <= 1

(* C3: two complete renders of the same scene started from the same        *)
(* generator state give the same image, pixel for pixel, whatever the      *)
(* scheduling of the worker threads.                                       *)
C3_SameSeedSameImage ==
    (pass = 2 /\ RenderFinished) => image = prevImage

(* C4: every output pixel is stored into at most once, by the one thread   *)
(* whose loop variables (x, y) name it: a working thread has stored        *)
(* exactly the pixels of its own row that lie before its x, nobody else    *)
(* has stored into that row, and no two working threads hold the same row. *)
C4_OwnPixelOnly ==
    /\ \A yy \in Rows, xx \in Cols :
         /\ Len(writers[yy][xx]) <= 1
         /\ (image[yy][xx] # Unwritten) <=> (writers[yy][xx] # <<>>)
    /\ \A t \in Working : \A xx \in Cols :
         writers[th[t].y][xx] = IF xx < th[t].x THEN <<t>> ELSE <<>>
    /\ \A t1, t2 \in Working : t1 # t2 => th[t1].y # th[t2].y

\* a finished render whose pixels were stored by different threads that
\* were at work at the same time
C4_Witness ==
    /\ RenderFinished
    /\ \A yy \in Rows, xx \in Cols : Len(writers[yy][xx]) = 1
    /\ \E y1, y2 \in Rows : writers[y1][0] # writers[y2][0]
    /\ image[0][0] # image[1][0]

====
